---------------------------- MODULE Spec2Model ----------------------------
(***************************************************************************)
(* Model of the synthetic skip-prediction dataset generator                *)
(* (generate_dataset.py), of the dashboard module it imports               *)
(* (streamlit_app.py) and of the windowed sequence loader                  *)
(* (sequence_dataset.py).                                                  *)
(*                                                                         *)
(* Numbers: probabilities, weights and the continuous track attributes are *)
(* held in hundredths (0.25 is 25, 0.08 is 8), so sums are exact.          *)
(* The seeded generator is a deterministic state machine (a 15 bit linear  *)
(* congruential generator stands for PCG64): a draw is a function of the   *)
(* generator state, and every draw advances the state by one step.         *)
(***************************************************************************)
EXTENDS Integers, Sequences, FiniteSets, TLC

VARIABLES
    N_USERS, N_TRACKS, N_SESSIONS,  \* the dimension constants of the run
    WEIGHTS,                        \* the categorical weight tables of the run
    seed,                           \* the seed given to default_rng
    dataDir,                        \* TRUE when the directory data/ exists
    csvFile,                        \* data/synthetic_sessions.csv: [exists, rows]
    pc,                             \* per run: the module-level statement to execute next
    exc,                            \* per run: the exception that ended the run, or "none"
    RNG,                            \* per run: the state of the process-wide generator
    dashboard_df,                   \* per run: streamlit_app.df, [loaded, rows]
    users_df, tracks_df, sessions_df, events_df,   \* per run: the tables
    row, skip_prob,                 \* an enriched row and compute_skip_probability of it
    max_len, loader_pc, ds_sessions, batch, collated   \* the sequence loader

vars == <<N_USERS, N_TRACKS, N_SESSIONS, WEIGHTS, seed, dataDir, csvFile, pc, exc,
          RNG, dashboard_df, users_df, tracks_df, sessions_df, events_df,
          row, skip_prob, max_len, loader_pc, ds_sessions, batch, collated>>

---------------------------------------------------------------------------
(* Bounds of the model *)

MaxN == 2          \* N_USERS, N_TRACKS, N_SESSIONS range over 0..MaxN
NumSeeds == 5      \* seeds SEED .. SEED + NumSeeds - 1
ShortLen == 7      \* a max_len that truncates most sessions, tried besides the default
MaxBatch == 2      \* items in a batch

---------------------------------------------------------------------------
(* Program constants *)

SEED == 42
MAX_LEN_DEFAULT == 50
NaN == -1          \* the fill value of a left merge for a numeric column
NaNStr == "nan"    \* the same for a categorical column

Runs == {1, 2}

AGE_GROUPS == <<"13-17", "18-24", "25-34", "35-44", "45+">>
AGE_WEIGHTS == <<10, 35, 30, 15, 10>>
GENDERS == <<"female", "male", "non_binary">>
GENDER_WEIGHTS == <<48, 48, 4>>
COUNTRIES == <<"NA", "EU_UK", "LATAM", "ASIA", "AFRICA">>
COUNTRY_WEIGHTS == <<20, 35, 20, 20, 5>>
SUB_TYPES == <<"free", "premium", "family", "student">>
SUB_WEIGHTS == <<45, 35, 10, 10>>
PLATFORMS == <<"ios", "android", "desktop", "web">>
PLATFORM_WEIGHTS == <<40, 40, 15, 5>>
SKIP_TENDENCY == <<"low", "medium", "high">>
SKIP_WEIGHTS == <<30, 50, 20>>
GENRES == <<"pop", "hiphop", "electronic", "rock", "latin", "classical", "indie", "jazz">>
GENRE_WEIGHTS == <<25, 20, 15, 15, 10, 5, 7, 3>>
TIME_OF_DAY == <<"morning", "afternoon", "evening", "night">>
TOD_WEIGHTS == <<20, 35, 30, 15>>
DAY_TYPE == <<"weekday", "weekend">>
DAY_WEIGHTS == <<70, 30>>
LOCATIONS == <<"home", "commute", "work", "gym">>
LOC_WEIGHTS == <<50, 25, 20, 5>>

\* The weight tables as the source declares them.
DeclaredWeights ==
    [age |-> AGE_WEIGHTS, gender |-> GENDER_WEIGHTS, country |-> COUNTRY_WEIGHTS,
     subscription |-> SUB_WEIGHTS, platform |-> PLATFORM_WEIGHTS, skip |-> SKIP_WEIGHTS,
     genre |-> GENRE_WEIGHTS, tod |-> TOD_WEIGHTS, day |-> DAY_WEIGHTS, loc |-> LOC_WEIGHTS]

WeightNames == DOMAIN DeclaredWeights

\* A malformed table: the first weight raised, so that the list sums to 1.05.
Malformed(p) == [p EXCEPT ![1] = @ + 5]

WeightConfigs ==
    {DeclaredWeights} \cup {[DeclaredWeights EXCEPT ![k] = Malformed(@)] : k \in WeightNames}

Seeds == SEED .. (SEED + NumSeeds - 1)

---------------------------------------------------------------------------
(* Helpers *)

Min(a, b) == IF a < b THEN a ELSE b
Max(a, b) == IF a > b THEN a ELSE b

RECURSIVE SumSeq(_)
SumSeq(s) == IF s = <<>> THEN 0 ELSE Head(s) + SumSeq(Tail(s))

RECURSIVE Flatten(_)
Flatten(ss) == IF ss = <<>> THEN <<>> ELSE Head(ss) \o Flatten(Tail(ss))

Range(s) == {s[i] : i \in 1..Len(s)}

---------------------------------------------------------------------------
(* The random source *)

\* Faulty variant: the generator is seeded from the environment (here the
\* size of the output file found) instead of from the seed alone.
default_rng_Entropy(sd) == ((sd + Len(csvFile.rows)) * 4053 + 12345) % 32768

\* np.random.default_rng(seed): the initial state is a scramble of the seed.
default_rng(sd) == (sd * 4053 + 12345) % 32768

\* One step of the generator.
RngStep(s) == (s * 25173 + 13849) % 32768

\* n steps of the generator are the affine map s |-> a * s + c: AffinePower(n)
\* is <<a, c>>, by repeated squaring.
AffineCompose(f, g) == <<(f[1] * g[1]) % 32768, (f[1] * g[2] + f[2]) % 32768>>
RECURSIVE AffinePower(_)
AffinePower(n) ==
    IF n = 0 THEN <<1, 0>>
    ELSE IF n % 2 = 0
         THEN LET h == AffinePower(n \div 2) IN AffineCompose(h, h)
         ELSE AffineCompose(<<25173, 13849>>, AffinePower(n - 1))

\* The state after n draws.
RngAdvance(s, n) == LET f == AffinePower(n) IN (f[1] * s + f[2]) % 32768

\* The raw outputs of the next n draws from state s, each in 0..4095.
RawStream(s, n) == [k \in 1..n |-> RngAdvance(s, k) \div 8]

\* RNG.random(): a uniform value of [0,1), in hundredths.
Uniform(raw) == (raw * 100) \div 4096

\* RNG.integers(low, high): a uniform integer of low..high-1.
Integers(low, high, raw) == low + (raw * (high - low)) \div 4096

\* RNG.choice(a, p=p): p is checked, then the draw is looked up in the
\* cumulative weights (cdf.searchsorted(u, side="right")).
WeightsOk(p) == SumSeq(p) = 100
Cdf(p, i) == SumSeq(SubSeq(p, 1, i))
Choice(a, p, raw) ==
    a[1 + Cardinality({i \in 1..Len(p) : Cdf(p, i) * 100 <= Uniform(raw) * SumSeq(p)})]


---------------------------------------------------------------------------
(* Entity generators.  Each returns [ok, table, rng]: ok is FALSE when a  *)
(* draw raises ValueError, and then no table is returned.                  *)

\* Column j (1-based) of a stage that draws its columns one after the other,
\* n values per column, from the raw stream of the stage.
Col(raw, n, j, i) == raw[(j - 1) * n + i]

generate_users(n_users, s, W) ==
    LET raw == RawStream(s, 6 * n_users)
        ok == /\ WeightsOk(W.age) /\ WeightsOk(W.gender) /\ WeightsOk(W.country)
              /\ WeightsOk(W.subscription) /\ WeightsOk(W.platform) /\ WeightsOk(W.skip)
    IN  IF ~ok THEN [ok |-> FALSE, table |-> <<>>, rng |-> s]
        ELSE [ok |-> TRUE,
              table |-> [i \in 1..n_users |->
                  [user_id |-> i,
                   age_group |-> Choice(AGE_GROUPS, W.age, Col(raw, n_users, 1, i)),
                   gender |-> Choice(GENDERS, W.gender, Col(raw, n_users, 2, i)),
                   country |-> Choice(COUNTRIES, W.country, Col(raw, n_users, 3, i)),
                   subscription |-> Choice(SUB_TYPES, W.subscription, Col(raw, n_users, 4, i)),
                   platform |-> Choice(PLATFORMS, W.platform, Col(raw, n_users, 5, i)),
                   skip_tendency |-> Choice(SKIP_TENDENCY, W.skip, Col(raw, n_users, 6, i))]],
              rng |-> RngAdvance(s, 6 * n_users)]

generate_tracks(n_tracks, s, W) ==
    LET raw == RawStream(s, 7 * n_tracks)
    IN  IF ~WeightsOk(W.genre) THEN [ok |-> FALSE, table |-> <<>>, rng |-> s]
        ELSE [ok |-> TRUE,
              table |-> [i \in 1..n_tracks |->
                  [track_id |-> i,
                   genre |-> Choice(GENRES, W.genre, Col(raw, n_tracks, 1, i)),
                   popularity |-> Integers(0, 101, Col(raw, n_tracks, 2, i)),
                   acousticness |-> Uniform(Col(raw, n_tracks, 3, i)),
                   danceability |-> Uniform(Col(raw, n_tracks, 4, i)),
                   energy |-> Uniform(Col(raw, n_tracks, 5, i)),
                   tempo |-> Integers(60, 181, Col(raw, n_tracks, 6, i)),
                   duration_sec |-> Integers(120, 360, Col(raw, n_tracks, 7, i))]],
              rng |-> RngAdvance(s, 7 * n_tracks)]

\* The draw of the user_id column of the sessions: RNG.integers(1, N_USERS + 1).
SessionUserId(n_users, raw) == Integers(1, n_users + 1, raw)

\* RNG.integers(low, high, size=n) raises ValueError (low >= high) unless n = 0.
IntegersRaises(low, high, n) == n > 0 /\ low >= high

generate_sessions(n_sessions, n_users, s, W) ==
    LET raw == RawStream(s, 5 * n_sessions)
        ok == /\ ~IntegersRaises(1, n_users + 1, n_sessions)
              /\ WeightsOk(W.tod) /\ WeightsOk(W.day) /\ WeightsOk(W.loc)
    IN  IF ~ok THEN [ok |-> FALSE, table |-> <<>>, rng |-> s]
        ELSE [ok |-> TRUE,
              table |-> [i \in 1..n_sessions |->
                  [session_id |-> i,
                   user_id |-> SessionUserId(n_users, Col(raw, n_sessions, 1, i)),
                   time_of_day |-> Choice(TIME_OF_DAY, W.tod, Col(raw, n_sessions, 2, i)),
                   day_type |-> Choice(DAY_TYPE, W.day, Col(raw, n_sessions, 3, i)),
                   location |-> Choice(LOCATIONS, W.loc, Col(raw, n_sessions, 4, i)),
                   session_length |-> Integers(5, 40, Col(raw, n_sessions, 5, i))]],
              rng |-> RngAdvance(s, 5 * n_sessions)]

---------------------------------------------------------------------------
(* Event expander, track assigner, join *)

\* Faulty variant: position = pos, so positions run from 0.
ExpandSession_FromZero(srow) ==
    [k \in 1..srow.session_length |->
        [session_id |-> srow.session_id,
         user_id |-> srow.user_id,
         position |-> k - 1,
         time_of_day |-> srow.time_of_day,
         day_type |-> srow.day_type,
         location |-> srow.location]]

\* The inner loop: for pos in range(n_events), position = pos + 1.
ExpandSession(srow) ==
    [k \in 1..srow.session_length |->
        [session_id |-> srow.session_id,
         user_id |-> srow.user_id,
         position |-> (k - 1) + 1,
         time_of_day |-> srow.time_of_day,
         day_type |-> srow.day_type,
         location |-> srow.location]]

expand_sessions_to_events(sessions) ==
    Flatten([i \in 1..Len(sessions) |-> ExpandSession(sessions[i])])

\* Faulty variant: the upper end is one too high, RNG.integers(1, N_TRACKS + 2).
TrackId_Endpoint(n_tracks, raw) == Integers(1, n_tracks + 2, raw)

\* The draw of one track_id: RNG.integers(1, N_TRACKS + 1).
TrackId(n_tracks, raw) == Integers(1, n_tracks + 1, raw)

assign_tracks(events, n_tracks, s) ==
    LET n == Len(events)
        raw == RawStream(s, n)
    IN  IF IntegersRaises(1, n_tracks + 1, n) THEN [ok |-> FALSE, table |-> <<>>, rng |-> s]
        ELSE [ok |-> TRUE,
              table |-> [i \in 1..n |-> events[i] @@ [track_id |-> TrackId(n_tracks, raw[i])]],
              rng |-> RngAdvance(s, n)]

\* The columns a left merge adds, filled for a left row without a match.
NullUser ==
    [age_group |-> NaNStr, gender |-> NaNStr, country |-> NaNStr,
     subscription |-> NaNStr, platform |-> NaNStr, skip_tendency |-> NaNStr]
NullTrack ==
    [genre |-> NaNStr, popularity |-> NaN, acousticness |-> NaN, danceability |-> NaN,
     energy |-> NaN, tempo |-> NaN, duration_sec |-> NaN]

\* left.merge(right, on=key, how="left"): the left rows in order; a left row
\* gives one row per right row of the same key, or one null-filled row when
\* no right row has its key.
MergeRow(l, right, key, nulls) ==
    LET m == SelectSeq(right, LAMBDA rr : rr[key] = l[key])
    IN  IF m = <<>> THEN <<l @@ nulls>> ELSE [j \in 1..Len(m) |-> l @@ m[j]]

Merge(left, right, key, nulls) ==
    Flatten([i \in 1..Len(left) |-> MergeRow(left[i], right, key, nulls)])

---------------------------------------------------------------------------
(* Skip probability model, in hundredths *)

\* Faulty variant: the sum is returned as it is.
Clamp_Missing(p) == p

\* The final statement: return max(0, min(1, p)).
Clamp(p) == Max(0, Min(100, p))

\* Faulty variant: the two deltas exchanged.
TendencyDelta_Swapped(t) == IF t = "high" THEN 10 ELSE IF t = "medium" THEN 25 ELSE 0

\* The adjustment for skip_tendency: if "high" ... elif "medium" ...
TendencyDelta(t) == IF t = "high" THEN 25 ELSE IF t = "medium" THEN 10 ELSE 0

\* A comparison with a numeric field; it is False on NaN.
Less(x, c) == x # NaN /\ x < c
Greater(x, c) == x # NaN /\ x > c

\* Faulty variant: the country adjustments hang on the subscription test by
\* elif, so a free subscription suppresses them.
RawSkipSum_Exclusive(r) ==
    LET p0 == 25
        p1 == p0 + (IF r.skip_tendency = "high" THEN 25
                    ELSE IF r.skip_tendency = "medium" THEN 10 ELSE 0)
        p2 == IF r.age_group \in {"13-17", "18-24"} THEN p1 + 5 ELSE p1
        p3 == IF r.subscription = "free" THEN p2 + 10
              ELSE IF r.country = "LATAM" THEN p2 + 8
              ELSE IF r.country = "EU_UK" THEN p2 - 5 ELSE p2
        p6 == IF r.time_of_day = "morning" THEN p3 - 5 ELSE p3
        p7 == IF r.location = "gym" THEN p6 + 10 ELSE p6
        p8 == IF r.day_type = "weekend" THEN p7 + 5 ELSE p7
        p9 == IF r.genre \in {"pop", "latin"} THEN p8 - 5 ELSE p8
        p10 == IF r.genre \in {"classical", "jazz"} THEN p9 + 10 ELSE p9
        p11 == IF r.energy # NaN /\ r.energy < 30 THEN p10 + 5 ELSE p10
        p12 == IF r.danceability # NaN /\ r.danceability > 70 THEN p11 - 5 ELSE p11
    IN  p12

\* The sum before the clamp: the baseline and the statements that add to p.
RawSkipSum(r) ==
    LET p0 == 25
        p1 == p0 + TendencyDelta(r.skip_tendency)
        p2 == IF r.age_group \in {"13-17", "18-24"} THEN p1 + 5 ELSE p1
        p3 == IF r.subscription = "free" THEN p2 + 10 ELSE p2
        p4 == IF r.country = "LATAM" THEN p3 + 8 ELSE p3
        p5 == IF r.country = "EU_UK" THEN p4 - 5 ELSE p4
        p6 == IF r.time_of_day = "morning" THEN p5 - 5 ELSE p5
        p7 == IF r.location = "gym" THEN p6 + 10 ELSE p6
        p8 == IF r.day_type = "weekend" THEN p7 + 5 ELSE p7
        p9 == IF r.genre \in {"pop", "latin"} THEN p8 - 5 ELSE p8
        p10 == IF r.genre \in {"classical", "jazz"} THEN p9 + 10 ELSE p9
        p11 == IF Less(r.energy, 30) THEN p10 + 5 ELSE p10
        p12 == IF Greater(r.danceability, 70) THEN p11 - 5 ELSE p11
    IN  p12

compute_skip_probability(r) == Clamp(RawSkipSum(r))

\* events_df.apply(compute_skip_probability, axis=1)
ApplySkipProb(events) ==
    [i \in 1..Len(events) |-> events[i] @@ [skip_prob |-> compute_skip_probability(events[i])]]

\* RNG.random(len(events_df)) < events_df["skip_prob"]
SampleSkip(events, s) ==
    LET raw == RawStream(s, Len(events))
    IN  [i \in 1..Len(events) |-> events[i] @@ [skip |-> Uniform(raw[i]) < events[i].skip_prob]]

---------------------------------------------------------------------------
(* The generator script as a state machine: one action per module-level   *)
(* statement of generate_dataset.py, in the order of the file.            *)

Stages == <<"import_streamlit_app", "default_rng", "makedirs", "generate_users",
            "generate_tracks", "generate_sessions", "expand_sessions_to_events",
            "assign_tracks", "merge_users", "merge_tracks",
            "compute_skip_probability", "sample_skip", "to_csv", "done">>

StageIndex(st) == CHOOSE i \in 1..Len(Stages) : Stages[i] = st

\* The statement st of run r has completed.
Passed(r, st) == pc[r] # "idle" /\ StageIndex(pc[r]) > StageIndex(st)

At(r, st) == pc[r] = st /\ exc[r] = "none"

Goto(r, st) == pc' = [pc EXCEPT ![r] = st]
Raise(r, e) == exc' = [exc EXCEPT ![r] = e]

NoFile == [exists |-> FALSE, rows |-> <<>>]
\* An export left by an earlier run (header only).
StaleFile == [exists |-> TRUE, rows |-> <<>>]
NotLoaded == [loaded |-> FALSE, rows |-> <<>>]

config == <<N_USERS, N_TRACKS, N_SESSIONS, WEIGHTS, seed>>
tables == <<users_df, tracks_df, sessions_df, events_df>>
modelVars == <<row, skip_prob>>
loaderVars == <<max_len, loader_pc, ds_sessions, batch, collated>>

\* import streamlit_app: the module body runs, and it begins with
\* df = pd.read_csv("data/synthetic_sessions.csv").
ImportStreamlitApp(r) ==
    /\ At(r, "import_streamlit_app")
    /\ IF csvFile.exists
       THEN /\ dashboard_df' = [dashboard_df EXCEPT ![r] = [loaded |-> TRUE, rows |-> csvFile.rows]]
            /\ Goto(r, "default_rng")
            /\ UNCHANGED exc
       ELSE /\ Raise(r, "FileNotFoundError")
            /\ UNCHANGED <<pc, dashboard_df>>
    /\ UNCHANGED <<config, dataDir, csvFile, RNG, tables, modelVars, loaderVars>>

\* RNG = np.random.default_rng(seed=42)
SeedRNG(r) ==
    /\ At(r, "default_rng")
    /\ RNG' = [RNG EXCEPT ![r] = default_rng(seed)]
    /\ Goto(r, "makedirs")
    /\ UNCHANGED <<config, dataDir, csvFile, exc, dashboard_df, tables, modelVars, loaderVars>>

\* os.makedirs(DATA_DIR, exist_ok=True)
MakeDirs(r) ==
    /\ At(r, "makedirs")
    /\ dataDir' = TRUE
    /\ Goto(r, "generate_users")
    /\ UNCHANGED <<config, csvFile, exc, RNG, dashboard_df, tables, modelVars, loaderVars>>

\* users_df = generate_users(N_USERS)
GenerateUsers(r) ==
    /\ At(r, "generate_users")
    /\ LET g == generate_users(N_USERS, RNG[r], WEIGHTS)
       IN  IF g.ok
           THEN /\ users_df' = [users_df EXCEPT ![r] = g.table]
                /\ RNG' = [RNG EXCEPT ![r] = g.rng]
                /\ Goto(r, "generate_tracks")
                /\ UNCHANGED exc
           ELSE /\ Raise(r, "ValueError")
                /\ UNCHANGED <<pc, RNG, users_df>>
    /\ UNCHANGED <<config, dataDir, csvFile, dashboard_df, tracks_df, sessions_df, events_df,
                   modelVars, loaderVars>>

\* tracks_df = generate_tracks(N_TRACKS)
GenerateTracks(r) ==
    /\ At(r, "generate_tracks")
    /\ LET g == generate_tracks(N_TRACKS, RNG[r], WEIGHTS)
       IN  IF g.ok
           THEN /\ tracks_df' = [tracks_df EXCEPT ![r] = g.table]
                /\ RNG' = [RNG EXCEPT ![r] = g.rng]
                /\ Goto(r, "generate_sessions")
                /\ UNCHANGED exc
           ELSE /\ Raise(r, "ValueError")
                /\ UNCHANGED <<pc, RNG, tracks_df>>
    /\ UNCHANGED <<config, dataDir, csvFile, dashboard_df, users_df, sessions_df, events_df,
                   modelVars, loaderVars>>

\* sessions_df = generate_sessions(N_SESSIONS)
GenerateSessions(r) ==
    /\ At(r, "generate_sessions")
    /\ LET g == generate_sessions(N_SESSIONS, N_USERS, RNG[r], WEIGHTS)
       IN  IF g.ok
           THEN /\ sessions_df' = [sessions_df EXCEPT ![r] = g.table]
                /\ RNG' = [RNG EXCEPT ![r] = g.rng]
                /\ Goto(r, "expand_sessions_to_events")
                /\ UNCHANGED exc
           ELSE /\ Raise(r, "ValueError")
                /\ UNCHANGED <<pc, RNG, sessions_df>>
    /\ UNCHANGED <<config, dataDir, csvFile, dashboard_df, users_df, tracks_df, events_df,
                   modelVars, loaderVars>>

\* events_df = expand_sessions_to_events(sessions_df)
ExpandSessions(r) ==
    /\ At(r, "expand_sessions_to_events")
    /\ events_df' = [events_df EXCEPT ![r] = expand_sessions_to_events(sessions_df[r])]
    /\ Goto(r, "assign_tracks")
    /\ UNCHANGED <<config, dataDir, csvFile, exc, RNG, dashboard_df, users_df, tracks_df,
                   sessions_df, modelVars, loaderVars>>

\* events_df = assign_tracks(events_df, tracks_df)
AssignTracks(r) ==
    /\ At(r, "assign_tracks")
    /\ LET g == assign_tracks(events_df[r], N_TRACKS, RNG[r])
       IN  IF g.ok
           THEN /\ events_df' = [events_df EXCEPT ![r] = g.table]
                /\ RNG' = [RNG EXCEPT ![r] = g.rng]
                /\ Goto(r, "merge_users")
                /\ UNCHANGED exc
           ELSE /\ Raise(r, "ValueError")
                /\ UNCHANGED <<pc, RNG, events_df>>
    /\ UNCHANGED <<config, dataDir, csvFile, dashboard_df, users_df, tracks_df, sessions_df,
                   modelVars, loaderVars>>

\* events_df = events_df.merge(users_df, on="user_id", how="left").  An events
\* table built from no rows has no column user_id, and the merge raises KeyError.
MergeUsers(r) ==
    /\ At(r, "merge_users")
    /\ IF events_df[r] = <<>>
       THEN /\ Raise(r, "KeyError")
            /\ UNCHANGED <<pc, events_df>>
       ELSE /\ events_df' = [events_df EXCEPT ![r] = Merge(@, users_df[r], "user_id", NullUser)]
            /\ Goto(r, "merge_tracks")
            /\ UNCHANGED exc
    /\ UNCHANGED <<config, dataDir, csvFile, RNG, dashboard_df, users_df, tracks_df,
                   sessions_df, modelVars, loaderVars>>

\* events_df = events_df.merge(tracks_df, on="track_id", how="left")
MergeTracks(r) ==
    /\ At(r, "merge_tracks")
    /\ events_df' = [events_df EXCEPT ![r] = Merge(@, tracks_df[r], "track_id", NullTrack)]
    /\ Goto(r, "compute_skip_probability")
    /\ UNCHANGED <<config, dataDir, csvFile, exc, RNG, dashboard_df, users_df, tracks_df,
                   sessions_df, modelVars, loaderVars>>

\* events_df["skip_prob"] = events_df.apply(compute_skip_probability, axis=1)
ComputeSkipProb(r) ==
    /\ At(r, "compute_skip_probability")
    /\ events_df' = [events_df EXCEPT ![r] = ApplySkipProb(@)]
    /\ Goto(r, "sample_skip")
    /\ UNCHANGED <<config, dataDir, csvFile, exc, RNG, dashboard_df, users_df, tracks_df,
                   sessions_df, modelVars, loaderVars>>

\* events_df["skip"] = RNG.random(len(events_df)) < events_df["skip_prob"]
SampleOutcome(r) ==
    /\ At(r, "sample_skip")
    /\ events_df' = [events_df EXCEPT ![r] = SampleSkip(@, RNG[r])]
    /\ RNG' = [RNG EXCEPT ![r] = RngAdvance(@, Len(events_df[r]))]
    /\ Goto(r, "to_csv")
    /\ UNCHANGED <<config, dataDir, csvFile, exc, dashboard_df, users_df, tracks_df,
                   sessions_df, modelVars, loaderVars>>

\* events_df.to_csv(OUTPUT_FILE, index=False)
Export(r) ==
    /\ At(r, "to_csv")
    /\ IF dataDir
       THEN /\ csvFile' = [exists |-> TRUE, rows |-> events_df[r]]
            /\ Goto(r, "done")
            /\ UNCHANGED exc
       ELSE /\ Raise(r, "OSError")
            /\ UNCHANGED <<pc, csvFile>>
    /\ UNCHANGED <<config, dataDir, RNG, dashboard_df, tables, modelVars, loaderVars>>

Step(r) ==
    \/ ImportStreamlitApp(r)
    \/ SeedRNG(r)
    \/ MakeDirs(r)
    \/ GenerateUsers(r)
    \/ GenerateTracks(r)
    \/ GenerateSessions(r)
    \/ ExpandSessions(r)
    \/ AssignTracks(r)
    \/ MergeUsers(r)
    \/ MergeTracks(r)
    \/ ComputeSkipProb(r)
    \/ SampleOutcome(r)
    \/ Export(r)

EmptyTables == [r \in Runs |-> <<>>]

InitConfig ==
    /\ N_USERS \in 0..MaxN
    /\ N_TRACKS \in 0..MaxN
    /\ N_SESSIONS \in 0..MaxN
    /\ WEIGHTS \in WeightConfigs
    /\ seed \in Seeds

\* The output directory and file before the run: absent, or left by an earlier run.
InitFiles ==
    /\ dataDir \in BOOLEAN
    /\ csvFile \in (IF dataDir THEN {NoFile, StaleFile} ELSE {NoFile})

InitRuns(started) ==
    /\ pc = [r \in Runs |-> IF r \in started THEN "import_streamlit_app" ELSE "idle"]
    /\ exc = [r \in Runs |-> "none"]
    /\ RNG = [r \in Runs |-> 0]
    /\ dashboard_df = [r \in Runs |-> NotLoaded]
    /\ users_df = EmptyTables
    /\ tracks_df = EmptyTables
    /\ sessions_df = EmptyTables
    /\ events_df = EmptyTables

InitModelIdle == row = <<>> /\ skip_prob = NaN
NotCollated == [xs |-> <<>>, ys |-> <<>>, lengths |-> <<>>]
InitLoaderIdle ==
    /\ max_len = MAX_LEN_DEFAULT
    /\ loader_pc = "idle"
    /\ ds_sessions = <<>>
    /\ batch = <<>>
    /\ collated = NotCollated

\* One run of the script.
Init == InitConfig /\ InitFiles /\ InitRuns({1}) /\ InitModelIdle /\ InitLoaderIdle
Next == Step(1)
Spec == Init /\ [][Next]_vars

---------------------------------------------------------------------------
(* Two runs of the script with the same seed and the same constants, each *)
(* a process of its own (its own RNG and tables), on one file system.     *)

InitTwoRuns ==
    /\ InitConfig /\ WEIGHTS = DeclaredWeights
    /\ InitFiles /\ InitRuns({1, 2}) /\ InitModelIdle /\ InitLoaderIdle
NextTwoRuns == \E r \in Runs : Step(r)
SpecTwoRuns == InitTwoRuns /\ [][NextTwoRuns]_vars

---------------------------------------------------------------------------
(* The join and the stages after it, applied to tables in which an event  *)
(* key may have no row: the users and tracks tables of a run with some    *)
(* rows removed.                                                           *)

Without(table, key, ids) == SelectSeq(table, LAMBDA t : t[key] \notin ids)

InitJoin ==
    /\ N_USERS \in 1..MaxN /\ N_TRACKS \in 1..MaxN /\ N_SESSIONS \in 1..MaxN
    /\ WEIGHTS = DeclaredWeights
    /\ seed \in Seeds
    /\ dataDir = TRUE /\ csvFile = StaleFile
    /\ \E u \in {generate_users(N_USERS, default_rng(seed), WEIGHTS)} :
       \E t \in {generate_tracks(N_TRACKS, u.rng, WEIGHTS)} :
       \E g \in {generate_sessions(N_SESSIONS, N_USERS, t.rng, WEIGHTS)} :
       \E x \in {expand_sessions_to_events(g.table)} :
       \E e \in {assign_tracks(x, N_TRACKS, g.rng)} :
       \E du \in SUBSET (1..N_USERS) :
       \E dt \in SUBSET (1..N_TRACKS) :
           /\ users_df = [r \in Runs |-> IF r = 1 THEN Without(u.table, "user_id", du) ELSE <<>>]
           /\ tracks_df = [r \in Runs |-> IF r = 1 THEN Without(t.table, "track_id", dt) ELSE <<>>]
           /\ sessions_df = [r \in Runs |-> IF r = 1 THEN g.table ELSE <<>>]
           /\ events_df = [r \in Runs |-> IF r = 1 THEN e.table ELSE <<>>]
           /\ RNG = [r \in Runs |-> IF r = 1 THEN e.rng ELSE 0]
    /\ pc = [r \in Runs |-> IF r = 1 THEN "merge_users" ELSE "idle"]
    /\ exc = [r \in Runs |-> "none"]
    /\ dashboard_df = [r \in Runs |-> IF r = 1 THEN [loaded |-> TRUE, rows |-> <<>>] ELSE NotLoaded]
    /\ InitModelIdle /\ InitLoaderIdle
NextJoin ==
    \/ MergeUsers(1)
    \/ MergeTracks(1)
    \/ ComputeSkipProb(1)
    \/ SampleOutcome(1)
    \/ Export(1)
SpecJoin == InitJoin /\ [][NextJoin]_vars

---------------------------------------------------------------------------
(* compute_skip_probability as a function of one enriched row *)

EnergyValues == {29, 30, 50}
DanceValues == {50, 70, 71}

Rows ==
    [skip_tendency : Range(SKIP_TENDENCY), age_group : Range(AGE_GROUPS),
     subscription : Range(SUB_TYPES), country : Range(COUNTRIES),
     time_of_day : Range(TIME_OF_DAY), location : Range(LOCATIONS),
     day_type : Range(DAY_TYPE), genre : Range(GENRES),
     energy : EnergyValues, danceability : DanceValues]

\* One call of the function, on any row.
ApplyModel ==
    /\ row = <<>>
    /\ \E r \in Rows :
          /\ row' = r
          /\ skip_prob' = compute_skip_probability(r)
    /\ UNCHANGED <<config, dataDir, csvFile, pc, exc, RNG, dashboard_df, tables, loaderVars>>

InitModel ==
    /\ N_USERS = 0 /\ N_TRACKS = 0 /\ N_SESSIONS = 0
    /\ WEIGHTS = DeclaredWeights /\ seed = SEED
    /\ dataDir = FALSE /\ csvFile = NoFile
    /\ InitRuns({}) /\ InitModelIdle /\ InitLoaderIdle
NextModel == ApplyModel
SpecModel == InitModel /\ [][NextModel]_vars

---------------------------------------------------------------------------
(* The windowed sequence loader (sequence_dataset.py) on the exported file *)

\* The feature_cols argument of SessionDataset.
feature_cols == <<"position", "popularity", "energy">>

\* g.sort_values("position"): ascending position.
RECURSIVE SortByPosition(_)
SortByPosition(g) ==
    IF g = <<>> THEN <<>>
    ELSE LET lo == CHOOSE i \in 1..Len(g) : \A j \in 1..Len(g) : g[i].position <= g[j].position
         IN  <<g[lo]>> \o SortByPosition(SubSeq(g, 1, lo - 1) \o SubSeq(g, lo + 1, Len(g)))

\* The keys of df.groupby("session_id"), ascending.
RECURSIVE SortedKeys(_)
SortedKeys(ks) ==
    IF ks = {} THEN <<>>
    ELSE LET lo == CHOOSE k \in ks : \A o \in ks : k <= o
         IN  <<lo>> \o SortedKeys(ks \ {lo})

\* SessionDataset.__init__: one (X, y) per session.
BuildSessions(df, target_col) ==
    LET keys == SortedKeys({df[i].session_id : i \in 1..Len(df)})
    IN  [k \in 1..Len(keys) |->
            LET g == SortByPosition(SelectSeq(df, LAMBDA e : e.session_id = keys[k]))
            IN  [X |-> [i \in 1..Len(g) |-> [c \in 1..Len(feature_cols) |-> g[i][feature_cols[c]]]],
                 y |-> [i \in 1..Len(g) |-> g[i][target_col]]]]

\* torch.tensor(y, dtype=torch.long) of a boolean label.
AsLong(b) == IF b THEN 1 ELSE 0

ZeroRow == [c \in 1..Len(feature_cols) |-> 0]

\* SessionDataset.__getitem__: pad with zeros, or cut, to max_len.
GetItem(item, mlen) ==
    LET pad_len == mlen - Len(item.X)
        yl == [i \in 1..Len(item.y) |-> AsLong(item.y[i])]
    IN  IF pad_len > 0
        THEN [X |-> item.X \o [i \in 1..pad_len |-> ZeroRow],
              y |-> yl \o [i \in 1..pad_len |-> 0]]
        ELSE [X |-> SubSeq(item.X, 1, mlen),
              y |-> SubSeq(yl, 1, mlen)]

\* The entry of lengths for one item of the batch: lengths.append(len(y)).
ItemLength(it) == Len(it.y)

\* collate_fn
collate_fn(b) ==
    [xs |-> [i \in 1..Len(b) |-> b[i].X],
     ys |-> [i \in 1..Len(b) |-> b[i].y],
     lengths |-> [i \in 1..Len(b) |-> ItemLength(b[i])]]

pipelineVars == <<config, dataDir, csvFile, pc, exc, RNG, dashboard_df, tables, modelVars>>

\* SessionDataset(df, feature_cols, max_len=max_len) on the rows of the file.
DatasetInit ==
    /\ loader_pc = "new"
    /\ pc[1] = "done"
    /\ ds_sessions' = BuildSessions(csvFile.rows, "skip")
    /\ loader_pc' = "ready"
    /\ UNCHANGED <<pipelineVars, max_len, batch, collated>>

\* The data loader fetches dataset[idx] into the batch; idx is kept beside
\* the item so that a property can name the session the item came from.
FetchItem ==
    /\ loader_pc = "ready"
    /\ Len(batch) < MaxBatch
    /\ \E idx \in 1..Len(ds_sessions) :
          batch' = Append(batch, [idx |-> idx] @@ GetItem(ds_sessions[idx], max_len))
    /\ UNCHANGED <<pipelineVars, max_len, loader_pc, ds_sessions, collated>>

\* collate_fn(batch)
Collate ==
    /\ loader_pc = "ready"
    /\ batch # <<>>
    /\ collated' = collate_fn(batch)
    /\ loader_pc' = "collated"
    /\ UNCHANGED <<pipelineVars, max_len, ds_sessions, batch>>

InitLoader ==
    /\ InitConfig /\ WEIGHTS = DeclaredWeights
    /\ dataDir = TRUE /\ csvFile = StaleFile
    /\ InitRuns({1}) /\ InitModelIdle
    /\ max_len \in {ShortLen, MAX_LEN_DEFAULT}
    /\ loader_pc = "new"
    /\ ds_sessions = <<>>
    /\ batch = <<>>
    /\ collated = NotCollated
NextLoader ==
    \/ Step(1)
    \/ DatasetInit
    \/ FetchItem
    \/ Collate
SpecLoader == InitLoader /\ [][NextLoader]_vars

---------------------------------------------------------------------------
(* Properties *)

EventsOf(E, sid) == SelectSeq(E, LAMBDA e : e.session_id = sid)
SessionLengths(S) == [i \in 1..Len(S) |-> S[i].session_length]
Matches(table, key, v) == {j \in 1..Len(table) : table[j][key] = v}

\* C1: once the events are expanded, and through track assignment, the two
\* joins and every later stage, each session has exactly session_length event
\* rows, their positions are exactly 1..session_length, session_length is
\* within 5..39, and the table has sum(session_length) rows.
C1_EventsPerSession ==
    \A r \in Runs :
        Passed(r, "expand_sessions_to_events") =>
            /\ \A i \in 1..Len(sessions_df[r]) :
                  LET srow == sessions_df[r][i]
                      ev == EventsOf(events_df[r], srow.session_id)
                  IN  /\ srow.session_length \in 5..39
                      /\ Len(ev) = srow.session_length
                      /\ {ev[k].position : k \in 1..Len(ev)} = 1..srow.session_length
                      /\ \A k \in 1..Len(ev) : ev[k].position = k
            /\ Len(events_df[r]) = SumSeq(SessionLengths(sessions_df[r]))

\* A run that exported a table of two sessions of different lengths.
C1_Witness ==
    /\ pc[1] = "done"
    /\ Len(sessions_df[1]) >= 2
    /\ sessions_df[1][1].session_length # sessions_df[1][2].session_length
    /\ Len(csvFile.rows) = sessions_df[1][1].session_length + sessions_df[1][2].session_length

\* C4: every session's user_id is the key of exactly one user; every
\* event's track_id is the key of exactly one track, and its
\* (session_id, user_id) pair is that of exactly one session.
C4_KeysResolve ==
    \A r \in Runs :
        /\ Passed(r, "generate_sessions") =>
              \A i \in 1..Len(sessions_df[r]) :
                  Cardinality(Matches(users_df[r], "user_id", sessions_df[r][i].user_id)) = 1
        /\ Passed(r, "assign_tracks") =>
              \A i \in 1..Len(events_df[r]) :
                  LET e == events_df[r][i]
                  IN  /\ Cardinality(Matches(tracks_df[r], "track_id", e.track_id)) = 1
                      /\ Cardinality(Matches(users_df[r], "user_id", e.user_id)) = 1
                      /\ Cardinality({j \in 1..Len(sessions_df[r]) :
                                        /\ sessions_df[r][j].session_id = e.session_id
                                        /\ sessions_df[r][j].user_id = e.user_id}) = 1
        /\ Passed(r, "merge_tracks") =>
              \A i \in 1..Len(events_df[r]) :
                  /\ events_df[r][i].skip_tendency # NaNStr
                  /\ events_df[r][i].genre # NaNStr

\* A finished run whose events use two different tracks and two different users.
C4_Witness ==
    /\ pc[1] = "done"
    /\ Cardinality({csvFile.rows[i].track_id : i \in 1..Len(csvFile.rows)}) >= 2
    /\ Cardinality({csvFile.rows[i].user_id : i \in 1..Len(csvFile.rows)}) >= 2

\* An event key without a row in the users or tracks table of run r.
Unresolved(r) ==
    \E i \in 1..Len(events_df[r]) :
        \/ Matches(users_df[r], "user_id", events_df[r][i].user_id) = {}
        \/ Matches(tracks_df[r], "track_id", events_df[r][i].track_id) = {}

ConfigValid ==
    /\ N_USERS >= 1 /\ N_TRACKS >= 1 /\ N_SESSIONS >= 1
    /\ \A k \in WeightNames : WeightsOk(WEIGHTS[k])

\* C6: a run started with neither the output directory nor the output file
\* (and a valid configuration) raises nothing on its way to the export, and
\* the output file is not read before the exporter has written it.
C6_FreshRunExports ==
    (~dataDir /\ ~csvFile.exists /\ ConfigValid) =>
        /\ exc[1] = "none"
        /\ dashboard_df[1].loaded => pc[1] = "done"

\* C7: with a configuration error (a zero count, or a weight list that does
\* not sum to 1) no entity table is ever generated: the run does not get past
\* the statement that generates the first table.
C7_ConfigErrorFailsFast ==
    ~ConfigValid => \A r \in Runs : ~Passed(r, "generate_users")

Applied == skip_prob # NaN

\* C2: the value compute_skip_probability returns lies in [0,1] (0..100
\* hundredths) for every row, also where the sum before the clamp is
\* outside that range.
C2_ProbabilityInUnitInterval == Applied => (0 <= skip_prob /\ skip_prob <= 100)

\* A row whose unclamped sum is above 1 and whose result is exactly 1.
C2_Witness == Applied /\ RawSkipSum(row) > 100 /\ skip_prob = 100

\* The adjustment table of the skip model: one delta per row of the table,
\* 0 where the condition of the row does not hold.
AdjustmentTable(r) ==
    <<IF r.skip_tendency = "high" THEN 25 ELSE 0,
      IF r.skip_tendency = "medium" THEN 10 ELSE 0,
      IF r.age_group \in {"13-17", "18-24"} THEN 5 ELSE 0,
      IF r.subscription = "free" THEN 10 ELSE 0,
      IF r.country = "LATAM" THEN 8 ELSE 0,
      IF r.country = "EU_UK" THEN -5 ELSE 0,
      IF r.time_of_day = "morning" THEN -5 ELSE 0,
      IF r.location = "gym" THEN 10 ELSE 0,
      IF r.day_type = "weekend" THEN 5 ELSE 0,
      IF r.genre \in {"pop", "latin"} THEN -5 ELSE 0,
      IF r.genre \in {"classical", "jazz"} THEN 10 ELSE 0,
      IF r.energy < 30 THEN 5 ELSE 0,
      IF r.danceability > 70 THEN -5 ELSE 0>>

TableSum(r) == 25 + SumSeq(AdjustmentTable(r))

ExampleRow(r) ==
    /\ r.skip_tendency = "high" /\ r.subscription = "free" /\ r.country = "LATAM"
    /\ r.time_of_day = "afternoon" /\ r.day_type = "weekday" /\ r.location = "home"
    /\ r.genre = "rock" /\ r.energy = 50 /\ r.danceability = 50
    /\ r.age_group \notin {"13-17", "18-24"}

AllPositiveRow(r) ==
    /\ r.skip_tendency = "high" /\ r.age_group \in {"13-17", "18-24"}
    /\ r.subscription = "free" /\ r.country = "LATAM" /\ r.location = "gym"
    /\ r.day_type = "weekend" /\ r.genre \in {"classical", "jazz"} /\ r.energy < 30
    /\ r.time_of_day # "morning" /\ r.danceability <= 70

\* C3: the result is the baseline plus the deltas of all the rows of the
\* adjustment table whose condition holds, cut to [0,1]; the example row
\* gives 0.68 and the row on which every positive adjustment fires gives 1.
C3_AdditiveTable ==
    Applied =>
        /\ skip_prob = (IF TableSum(row) > 100 THEN 100
                        ELSE IF TableSum(row) < 0 THEN 0 ELSE TableSum(row))
        /\ ExampleRow(row) => skip_prob = 68
        /\ AllPositiveRow(row) => (TableSum(row) = 103 /\ skip_prob = 100)

\* The example row, on which three adjustments accumulate.
C3_Witness == Applied /\ ExampleRow(row) /\ skip_prob = 68

TendencyRank(t) == CHOOSE i \in 1..Len(SKIP_TENDENCY) : SKIP_TENDENCY[i] = t

\* C9: with every other field fixed, the probability of a row does not
\* decrease when skip_tendency goes from low to medium to high.
C9_MonotoneInTendency ==
    Applied =>
        \A t \in Range(SKIP_TENDENCY) :
            LET other == compute_skip_probability([row EXCEPT !.skip_tendency = t])
            IN  /\ TendencyRank(t) >= TendencyRank(row.skip_tendency) => other >= skip_prob
                /\ TendencyRank(t) <= TendencyRank(row.skip_tendency) => other <= skip_prob

\* A medium row strictly between its low and its high variant.
C9_Witness ==
    /\ Applied
    /\ row.skip_tendency = "medium"
    /\ compute_skip_probability([row EXCEPT !.skip_tendency = "low"]) < skip_prob
    /\ skip_prob < compute_skip_probability([row EXCEPT !.skip_tendency = "high"])

\* The draws a finished run has taken: six columns per user, seven per track,
\* five per session, one track and one outcome per event.
DrawsOfRun(r) ==
    6 * N_USERS + 7 * N_TRACKS + 5 * N_SESSIONS + 2 * Len(events_df[r])

\* C8: two runs with the same seed and the same constants that both finish
\* have produced the same tables, row for row and value for value, and each
\* has consumed the one seeded stream from its start, draw after draw.
C8_SameSeedSameOutput ==
    (pc[1] = "done" /\ pc[2] = "done") =>
        /\ events_df[1] = events_df[2]
        /\ users_df[1] = users_df[2]
        /\ tracks_df[1] = tracks_df[2]
        /\ sessions_df[1] = sessions_df[2]
        /\ csvFile.rows = events_df[1]
        /\ \A r \in Runs : RNG[r] = RngAdvance(default_rng(seed), DrawsOfRun(r))

\* Two finished runs whose table holds skipped and unskipped events.
C8_Witness ==
    /\ pc[1] = "done" /\ pc[2] = "done"
    /\ \E i, j \in 1..Len(events_df[2]) : events_df[2][i].skip /\ ~events_df[2][j].skip

\* The events of the session an item of the batch came from, by position.
SessionRows(idx) ==
    LET keys == SortedKeys({csvFile.rows[i].session_id : i \in 1..Len(csvFile.rows)})
    IN  EventsOf(csvFile.rows, keys[idx])

\* C10: every item has exactly max_len feature rows and labels, the events
\* of its session in ascending position, cut to max_len or followed by
\* zeros; and collate_fn reports for each item of a session with at most
\* max_len events the number of events of that session.
C10_SequencesAndTrueLengths ==
    loader_pc = "collated" =>
        \A i \in 1..Len(batch) :
            LET ev == SessionRows(batch[i].idx)
                n == Len(ev)
            IN  /\ Len(collated.xs[i]) = max_len
                /\ Len(collated.ys[i]) = max_len
                /\ \A k \in 1..max_len :
                      IF k <= n
                      THEN /\ collated.xs[i][k][1] = k
                           /\ collated.ys[i][k] = (IF ev[k].skip THEN 1 ELSE 0)
                      ELSE /\ collated.xs[i][k] = ZeroRow
                           /\ collated.ys[i][k] = 0
                /\ n <= max_len => collated.lengths[i] = n

\* The part of C10 about the sequences alone.
C10_SequencesOnly ==
    loader_pc = "collated" =>
        \A i \in 1..Len(batch) :
            LET ev == SessionRows(batch[i].idx)
                n == Len(ev)
            IN  /\ Len(collated.xs[i]) = max_len
                /\ Len(collated.ys[i]) = max_len
                /\ \A k \in 1..max_len :
                      IF k <= n
                      THEN /\ collated.xs[i][k][1] = k
                           /\ collated.ys[i][k] = (IF ev[k].skip THEN 1 ELSE 0)
                      ELSE /\ collated.xs[i][k] = ZeroRow
                           /\ collated.ys[i][k] = 0

=============================================================================
